---- MODULE Spec2Model ----
(***************************************************************************)
(* BurnerManager (packages/create-burner/src/manager/burnerManager.ts) and *)
(* prefundAccount (manager/prefundAccount.ts) as a state machine.          *)
(*                                                                         *)
(* One application task calls the manager's methods and awaits each call   *)
(* before the next one (the usage of the class documentation).  The        *)
(* concurrency of the model is the concurrency the class creates itself:   *)
(* clear() runs one delete() per stored burner under Promise.all, and      *)
(* init() starts clear() without awaiting it.  Every await of the source   *)
(* is a point where the other pending continuations may run.               *)
(*                                                                         *)
(* Abstractions: an address stands for the key triple generated with it;   *)
(* a transaction hash is named after what getTransactionReceipt answers    *)
(* for it; the outcome of an SDK call (RPC, deployAccount, emptyAccount)   *)
(* is chosen nondeterministically among returning and throwing.            *)
(***************************************************************************)
EXTENDS Integers, Sequences, FiniteSets, TLC

\* Number of distinct burner addresses (generated or found in local storage).
NumAddr == 2

\* Longest burner storage found in local storage when the program starts.
MaxStored == 2

Addr == 1..NumAddr

\* `public account: Account | null = null`
NoAccount == 0

\* this.masterAccount.address, and the address of some other master account
\* that funded burners found in local storage.
MasterAddress == "0xmaster"

OtherMaster == "0xother"

\* What provider.getChainId() decodes to.
ChainName == "KATANA"

ChainIds == {"", ChainName}

\* Transaction hashes: one whose receipt the node returns, one for which
\* getTransactionReceipt answers null or throws.
TxHash == {"0xaccepted", "0xpending"}

BurnerEntry == [address : Addr, active : BOOLEAN, deployTx : TxHash,
                masterAccount : {MasterAddress, OtherMaster}]

VARIABLES
    chainId,         \* this.chainId
    kv,              \* Storage: kv[c] is the value under key `burners_${c}`
    account,         \* this.account
    isDeploying,     \* this.isDeploying
    isInitialized,   \* this.isInitialized
    afterDeploying,  \* whether the afterDeploying callback is set
    pc,              \* where the application's pending call is suspended
    cr,              \* locals of the pending create()
    ini,             \* locals of the pending init()
    deletes,         \* delete() calls suspended in `await emptyAccount`
    initClear,       \* the clear() started by init() is still pending
    drained,         \* history: addresses whose emptyAccount call succeeded
                     \* since create() last stored an entry for them
    last             \* the step just taken: method, place, outcome, calls issued

vars == <<chainId, kv, account, isDeploying, isInitialized,
          afterDeploying, pc, cr, ini, deletes, initClear, drained, last>>

----------------------------------------------------------------------------
\* Objects keyed by address, in insertion order (Object.keys order).

Has(storage, address) == \E i \in 1..Len(storage) : storage[i].address = address

Entry(storage, address) ==
    storage[CHOOSE i \in 1..Len(storage) : storage[i].address = address]

\* `for (let addr in storage) storage[addr].active = false`
AllInactive(storage) ==
    [i \in 1..Len(storage) |-> [storage[i] EXCEPT !.active = FALSE]]

\* `delete storage[address]`
Without(storage, address) == SelectSeq(storage, LAMBDA e : e.address # address)

\* `storage[address] = entry`
With(storage, entry) ==
    IF Has(storage, entry.address)
    THEN [i \in 1..Len(storage) |->
             IF storage[i].address = entry.address THEN entry ELSE storage[i]]
    ELSE Append(storage, entry)

\* The first address whose entry is active, NoAccount when there is none.
FirstActive(storage) ==
    IF \E i \in 1..Len(storage) : storage[i].active
    THEN storage[CHOOSE i \in 1..Len(storage) :
                    /\ storage[i].active
                    /\ \A j \in 1..(i - 1) : ~storage[j].active].address
    ELSE NoAccount

----------------------------------------------------------------------------
\* Storage.get(key) || {}
StorageAt(store, c) == IF store[c].has THEN store[c].burners ELSE <<>>

getBurnerStorage == StorageAt(kv, chainId)

\* Storage.set(this.getBurnerKey(), storage)
StorageSet(store, c, storage) ==
    [store EXCEPT ![c] = [has |-> TRUE, burners |-> storage]]

\* Storage.remove(this.getBurnerKey())
StorageRemove(store, c) ==
    [store EXCEPT ![c] = [has |-> FALSE, burners |-> <<>>]]

\* getTransactionReceipt inside try/catch: a receipt, or false on null or throw.
isBurnerDeployed(deployTx) == deployTx = "0xaccepted"

\* list(): the stored burners of this master account.
list ==
    LET storage == getBurnerStorage
        mine == SelectSeq(storage, LAMBDA e : e.masterAccount = MasterAddress)
    IN  [i \in 1..Len(mine) |-> [address |-> mine[i].address,
                                 active |-> mine[i].active,
                                 masterAccount |-> mine[i].masterAccount]]

getActiveAccount == FirstActive(getBurnerStorage)

\* The account after setActiveBurnerAccount(storage).
setActiveBurnerAccount(storage) ==
    IF FirstActive(storage) # NoAccount THEN FirstActive(storage) ELSE account

\* The storage select(address) writes: only `address` active.
Selected(storage, address) ==
    [i \in 1..Len(storage) |->
        [storage[i] EXCEPT !.active = (storage[i].address = address)]]

\* updateIsDeploying(status): sets isDeploying and invokes the isDeploying
\* callback when one is set.
Notify == {"updateIsDeploying"}

----------------------------------------------------------------------------
NoCreate == [address |-> NoAccount, deployTx |-> "", prefund |-> "none",
             isDeployed |-> FALSE, receipt |-> FALSE]

NoInit == [keepNonDeployed |-> FALSE, storage |-> <<>>]

\* A step of method `op` resumed at `at` (the call itself, or the await that
\* produced `res`), for address `arg`; it left the method pending, returned or
\* threw `err`, and issued the SDK and callback calls `calls`.
Step(op, at, arg, res, out, err, calls) ==
    [op |-> op, at |-> at, arg |-> arg, res |-> res, out |-> out, err |-> err,
     calls |-> calls]

\* Storages a previous session may have left: distinct addresses, any order.
StoredBurners ==
    {s \in UNION {[1..n -> BurnerEntry] : n \in 0..MaxStored} :
        \A i, j \in 1..Len(s) : s[i].address = s[j].address => i = j}

Init ==
    /\ chainId = ""
    /\ \E s \in StoredBurners, h \in BOOLEAN :
          kv = [c \in ChainIds |->
                  IF c = ChainName /\ (h \/ s # <<>>)
                  THEN [has |-> TRUE, burners |-> s]
                  ELSE [has |-> FALSE, burners |-> <<>>]]
    /\ account = NoAccount
    /\ isDeploying = FALSE
    /\ isInitialized = FALSE
    /\ afterDeploying = FALSE
    /\ pc = "idle"
    /\ cr = NoCreate
    /\ ini = NoInit
    /\ deletes = {}
    /\ initClear = FALSE
    /\ drained = {}
    /\ last = Step("constructor", "call", NoAccount, "", "returned", "", {})

----------------------------------------------------------------------------
\* setAfterDeployingCallback

SetAfterDeployingCallback ==
    /\ pc = "idle"
    /\ ~afterDeploying
    /\ afterDeploying' = TRUE
    /\ last' = Step("setAfterDeployingCallback", "call", NoAccount, "", "returned", "", {})
    /\ UNCHANGED <<drained, chainId, kv, account, isDeploying, isInitialized,
                   pc, cr, ini, deletes, initClear>>

----------------------------------------------------------------------------
\* select, get

\* Variant of BurnerFound with the test left out.
BurnerAssumedFound(storage, address) == TRUE

\* `if (!storage[address]) throw new Error("burner not found")`, negated.
BurnerFound(storage, address) == Has(storage, address)

Select(address) ==
    /\ pc = "idle"
    /\ LET storage == getBurnerStorage IN
       IF ~BurnerFound(storage, address)
       THEN /\ last' = Step("select", "call", address, "", "threw", "burner not found", {})
            /\ UNCHANGED <<kv, account>>
       ELSE /\ kv' = StorageSet(kv, chainId, Selected(storage, address))
            /\ account' = address
            /\ last' = Step("select", "call", address, "", "returned", "", {})
    /\ UNCHANGED <<drained, chainId, isDeploying, isInitialized, 
                   afterDeploying, pc, cr, ini, deletes, initClear>>

Get(address) ==
    /\ pc = "idle"
    /\ last' = IF ~BurnerFound(getBurnerStorage, address)
               THEN Step("get", "call", address, "", "threw", "burner not found", {})
               ELSE Step("get", "call", address, "", "returned", "", {})
    /\ UNCHANGED <<drained, chainId, kv, account, isDeploying, isInitialized, 
                   afterDeploying, pc, cr, ini, deletes, initClear>>

----------------------------------------------------------------------------
\* delete, clear

\* delete(address) up to `await emptyAccount(...)`, the storage it read kept.
DeleteTask(address, storage, owner) ==
    [address |-> address, storage |-> storage, owner |-> owner]

\* The delete() calls clear() makes: one per stored address.
ClearTasks(owner) ==
    LET storage == getBurnerStorage IN
    {DeleteTask(storage[i].address, storage, owner) : i \in 1..Len(storage)}

Pending(owner) == \E t \in deletes : t.owner = owner

DeleteCall(address) ==
    /\ pc = "idle"
    /\ LET storage == getBurnerStorage IN
       IF ~BurnerFound(storage, address)
       THEN /\ last' = Step("delete", "call", address, "", "threw", "burner not found", {})
            /\ UNCHANGED <<pc, deletes>>
       ELSE /\ deletes' = deletes \cup {DeleteTask(address, storage, "delete")}
            /\ pc' = "delete"
            /\ last' = Step("delete", "call", address, "", "pending", "", {"emptyAccount"})
    /\ UNCHANGED <<drained, chainId, kv, account, isDeploying, isInitialized, 
                   afterDeploying, cr, ini, initClear>>

\* Variant of AfterDelete that does not select a remaining burner.
AfterDeleteUnselected(storage, address) == Without(storage, address)

\* The storage delete() writes once emptyAccount has succeeded: the storage it
\* read at its start less the address, the first remaining burner selected.
AfterDelete(storage, address) ==
    LET remaining == Without(storage, address) IN
    IF Len(remaining) > 0 THEN Selected(remaining, remaining[1].address) ELSE remaining

\* Variant of DeleteProceeds whose catch block does not return.
CatchFallsThrough(emptied) == TRUE

\* The catch block around emptyAccount logs and returns: delete() goes on to
\* remove the entry only when emptyAccount did not throw.
DeleteProceeds(emptied) == emptied

\* delete() resumed after `await emptyAccount(...)`.
DeleteResume(t, emptied) ==
    /\ t \in deletes
    /\ deletes' = deletes \ {t}
    /\ pc' = IF t.owner = "delete" THEN "idle" ELSE pc
    /\ IF ~DeleteProceeds(emptied)
       THEN /\ last' = Step("delete", "emptyAccount", t.address, "throws", "returned",
                            "while emptying account error", {})
            /\ UNCHANGED <<kv, account, drained>>
       ELSE LET storage == AfterDelete(t.storage, t.address) IN
            /\ kv' = StorageSet(kv, chainId, storage)
            /\ account' = IF Len(storage) > 0 THEN storage[1].address ELSE NoAccount
            /\ drained' = IF emptied THEN drained \cup {t.address} ELSE drained
            /\ last' = Step("delete", "emptyAccount", t.address,
                            IF emptied THEN "ok" ELSE "throws", "returned", "", {})
    /\ UNCHANGED <<chainId, isDeploying, isInitialized,
                   afterDeploying, cr, ini, initClear>>

ClearCall ==
    /\ pc = "idle"
    /\ IF ClearTasks("clear") = {}
       THEN /\ kv' = StorageRemove(kv, chainId)
            /\ last' = Step("clear", "call", NoAccount, "", "returned", "", {})
            /\ UNCHANGED <<pc, deletes>>
       ELSE /\ deletes' = deletes \cup ClearTasks("clear")
            /\ pc' = "clear"
            /\ last' = Step("clear", "call", NoAccount, "", "pending", "", {"emptyAccount"})
            /\ UNCHANGED kv
    /\ UNCHANGED <<drained, chainId, account, isDeploying, isInitialized, 
                   afterDeploying, cr, ini, initClear>>

\* clear() resumed after `await Promise.all(deletePromises)`.
ClearResume ==
    /\ pc = "clear"
    /\ ~Pending("clear")
    /\ kv' = StorageRemove(kv, chainId)
    /\ pc' = "idle"
    /\ last' = Step("clear", "Promise.all", NoAccount, "ok", "returned", "", {})
    /\ UNCHANGED <<drained, chainId, account, isDeploying, isInitialized, 
                   afterDeploying, cr, ini, deletes, initClear>>

\* The same, for the clear() that init() started and did not await.
InitClearResume ==
    /\ initClear
    /\ ~Pending("init")
    /\ kv' = StorageRemove(kv, chainId)
    /\ initClear' = FALSE
    /\ last' = Step("clear", "Promise.all", NoAccount, "ok", "finished", "", {})
    /\ UNCHANGED <<drained, chainId, account, isDeploying, isInitialized, 
                   afterDeploying, pc, cr, ini, deletes>>

----------------------------------------------------------------------------
\* init

\* Variant of InitAllowed with the guard left out.
InitAlwaysAllowed == TRUE

\* `if (this.isInitialized) throw ...`, negated.
InitAllowed == ~isInitialized

InitCall(keepNonDeployed) ==
    /\ pc = "idle"
    /\ IF ~InitAllowed
       THEN /\ last' = Step("init", "call", NoAccount, "", "threw",
                            "BurnerManager is already initialized", {})
            /\ UNCHANGED <<pc, ini>>
       ELSE /\ pc' = "getChainId"
            /\ ini' = [NoInit EXCEPT !.keepNonDeployed = keepNonDeployed]
            /\ last' = Step("init", "call", NoAccount, "", "pending", "", {"getChainId"})
    /\ UNCHANGED <<drained, chainId, kv, account, isDeploying, isInitialized, 
                   afterDeploying, cr, deletes, initClear>>

\* init() resumed after `await this.provider.getChainId()`.
InitChainId(ok) ==
    /\ pc = "getChainId"
    /\ IF ~ok
       THEN /\ pc' = "idle"
            /\ ini' = NoInit
            /\ last' = Step("init", "getChainId", NoAccount, "throws", "threw", "RPC error", {})
            /\ UNCHANGED chainId
       ELSE /\ chainId' = ChainName
            /\ pc' = "checks"
            /\ ini' = [ini EXCEPT !.storage = StorageAt(kv, ChainName)]
            /\ last' = Step("init", "getChainId", NoAccount, "ok", "pending", "",
                            IF StorageAt(kv, ChainName) = <<>> THEN {}
                            ELSE {"getTransactionReceipt"})
    /\ UNCHANGED <<drained, kv, account, isDeploying, isInitialized, 
                   afterDeploying, cr, deletes, initClear>>

\* `storage` once the toRemove.forEach loop has run.
Kept(storage, keepNonDeployed) ==
    SelectSeq(storage, LAMBDA e : keepNonDeployed \/ isBurnerDeployed(e.deployTx))

\* init() resumed after `await Promise.all(checks)`.
InitResume ==
    /\ pc = "checks"
    /\ LET storage == Kept(ini.storage, ini.keepNonDeployed) IN
       IF Len(storage) > 0
       THEN /\ kv' = StorageSet(kv, chainId, storage)
            /\ account' = setActiveBurnerAccount(storage)
            /\ last' = Step("init", "Promise.all", NoAccount, "ok", "returned", "", {})
            /\ UNCHANGED <<deletes, initClear>>
       ELSE \* this.clear(), not awaited
            /\ IF ClearTasks("init") = {}
               THEN /\ kv' = StorageRemove(kv, chainId)
                    /\ last' = Step("init", "Promise.all", NoAccount, "ok", "returned", "", {})
                    /\ UNCHANGED <<deletes, initClear>>
               ELSE /\ deletes' = deletes \cup ClearTasks("init")
                    /\ initClear' = TRUE
                    /\ last' = Step("init", "Promise.all", NoAccount, "ok", "returned", "",
                                    {"emptyAccount"})
                    /\ UNCHANGED kv
            /\ UNCHANGED account
    /\ isInitialized' = TRUE
    /\ pc' = "idle"
    /\ ini' = NoInit
    /\ UNCHANGED <<drained, chainId, isDeploying, afterDeploying, cr>>

----------------------------------------------------------------------------
\* prefundAccount

\* prefundAccount resumed after one of its awaits: getNonce, execute,
\* waitForTransaction.  `res` is what the await produced.
PrefundNext(at, res) ==
    CASE res = "throws" -> "rejected"
      [] at = "getNonce" -> "execute"
      [] at = "execute" -> "waitForTransaction"
      [] at = "waitForTransaction" /\ res = "none" -> "rejected"
      [] OTHER -> "resolved"

PrefundStep(res) ==
    /\ pc = "prefundAccount"
    /\ cr.prefund \in {"getNonce", "execute", "waitForTransaction"}
    /\ res = "none" => cr.prefund = "waitForTransaction"
    /\ LET next == PrefundNext(cr.prefund, res) IN
       /\ cr' = [cr EXCEPT !.prefund = next]
       /\ last' = Step("prefundAccount", cr.prefund, cr.address, res,
                       CASE next = "rejected" -> "threw"
                         [] next = "resolved" -> "returned"
                         [] OTHER -> "pending",
                       CASE next # "rejected" -> ""
                         [] res = "throws" -> "RPC error"
                         [] OTHER -> "Transaction did not complete successfully.",
                       IF next \in {"execute", "waitForTransaction"} THEN {next} ELSE {})
    /\ UNCHANGED <<drained, chainId, kv, account, isDeploying, isInitialized, 
                   afterDeploying, pc, ini, deletes, initClear>>

----------------------------------------------------------------------------
\* create

\* Variant of CreateAllowed with the guard left out.
CreateAlwaysAllowed == TRUE

\* `if (!this.isInitialized) throw ...`, negated.
CreateAllowed == isInitialized

CreateCall(address) ==
    /\ pc = "idle"
    /\ IF ~CreateAllowed
       THEN /\ last' = Step("create", "call", NoAccount, "", "threw",
                            "BurnerManager is not initialized", {})
            /\ UNCHANGED <<isDeploying, pc, cr>>
       ELSE /\ isDeploying' = TRUE
            /\ cr' = [NoCreate EXCEPT !.address = address, !.prefund = "getNonce"]
            /\ pc' = "prefundAccount"
            /\ last' = Step("create", "call", address, "", "pending", "",
                            Notify \cup {"prefundAccount", "getNonce"})
    /\ UNCHANGED <<drained, chainId, kv, account, isInitialized, 
                   afterDeploying, ini, deletes, initClear>>

\* Variant of PrefundAwaited: prefundAccount called without await.
PrefundNotAwaited == TRUE

\* `await prefundAccount(...)`: create() resumes once the call has settled.
PrefundAwaited == cr.prefund \in {"resolved", "rejected"}

\* create() resumed after `await prefundAccount(...)`, up to
\* `await this.account?.getNonce()`.
CreatePrefunded ==
    /\ pc = "prefundAccount"
    /\ PrefundAwaited
    /\ isDeploying' = IF cr.prefund = "rejected" THEN FALSE ELSE isDeploying
    /\ pc' = IF account # NoAccount THEN "getNonce" ELSE "noNonce"
    /\ last' = Step("create", "prefundAccount", cr.address,
                    IF cr.prefund = "rejected" THEN "throws" ELSE "ok", "pending", "",
                    (IF cr.prefund = "rejected" THEN Notify ELSE {})
                    \cup (IF account # NoAccount THEN {"getNonce"} ELSE {}))
    /\ UNCHANGED <<drained, chainId, kv, account, isInitialized, 
                   afterDeploying, cr, ini, deletes, initClear>>

\* The catch blocks of create(): updateIsDeploying(false), then rethrow.
CreateThrows(at, err, notify) ==
    /\ isDeploying' = IF notify THEN FALSE ELSE isDeploying
    /\ pc' = "idle"
    /\ cr' = NoCreate
    /\ last' = Step("create", at, cr.address, IF err = "RPC error" THEN "throws" ELSE "none",
                    "threw", err, IF notify THEN Notify ELSE {})
    /\ UNCHANGED <<kv, account, drained>>

\* create() resumed after `await this.account?.getNonce()`.
CreateNonce(ok) ==
    /\ pc \in {"getNonce", "noNonce"}
    /\ ~ok => pc = "getNonce"
    /\ IF ~ok
       THEN CreateThrows("getNonce", "RPC error", TRUE)
       ELSE /\ pc' = "deployAccount"
            /\ last' = Step("create", "getNonce", cr.address, "ok", "pending", "",
                            {"deployAccount"})
            /\ UNCHANGED <<kv, account, isDeploying, cr, drained>>
    /\ UNCHANGED <<chainId, isInitialized, afterDeploying, ini,
                   deletes, initClear>>

\* create() resumed after `await burner.deployAccount(...)`.
CreateDeployed(ok, transaction_hash) ==
    /\ pc = "deployAccount"
    /\ IF ~ok
       THEN CreateThrows("deployAccount", "RPC error", TRUE)
       ELSE /\ pc' = "isBurnerDeployed"
            /\ cr' = [cr EXCEPT !.deployTx = transaction_hash]
            /\ last' = Step("create", "deployAccount", cr.address, "ok", "pending", "",
                            {"getTransactionReceipt"})
            /\ UNCHANGED <<kv, account, isDeploying, drained>>
    /\ UNCHANGED <<chainId, isInitialized, afterDeploying, ini,
                   deletes, initClear>>

\* The entry create() stores for the new burner.
NewEntry == [address |-> cr.address, active |-> TRUE, deployTx |-> cr.deployTx,
             masterAccount |-> MasterAddress]

\* create() from `const storage = this.getBurnerStorage()` on, up to
\* `await this.afterDeploying(...)` or to its return.
CreateStores(at, res) ==
    /\ kv' = StorageSet(kv, chainId, With(AllInactive(getBurnerStorage), NewEntry))
    /\ account' = cr.address
    /\ isDeploying' = FALSE
    /\ drained' = drained \ {cr.address}
    /\ IF afterDeploying
       THEN /\ pc' = "afterDeploying"
            /\ cr' = cr
            /\ last' = Step("create", at, cr.address, res, "pending", "",
                            Notify \cup {"afterDeploying"})
       ELSE /\ pc' = "idle"
            /\ cr' = NoCreate
            /\ last' = Step("create", at, cr.address, res, "returned", "", Notify)

\* create() resumed after `await this.isBurnerDeployed(deployTx)`.
CreateChecked ==
    /\ pc = "isBurnerDeployed"
    /\ IF isBurnerDeployed(cr.deployTx)
       THEN CreateStores("isBurnerDeployed", "true")
       ELSE /\ pc' = "waitForTransaction"
            /\ last' = Step("create", "isBurnerDeployed", cr.address, "false", "pending",
                            "", {"waitForTransaction"})
            /\ UNCHANGED <<kv, account, isDeploying, cr, drained>>
    /\ UNCHANGED <<chainId, isInitialized, afterDeploying, ini,
                   deletes, initClear>>

\* Variant of NoReceipt with the receipt test left out.
ReceiptNotChecked(res) == FALSE

\* `if (!receipt) throw ...`
NoReceipt(res) == res = "none"

\* create() resumed after `await this.masterAccount.waitForTransaction(...)`.
CreateWaited(res) ==
    /\ pc = "waitForTransaction"
    /\ CASE res = "throws" -> CreateThrows("waitForTransaction", "RPC error", FALSE)
         [] NoReceipt(res) ->
                CreateThrows("waitForTransaction",
                             "Transaction did not complete successfully.", FALSE)
         [] OTHER -> CreateStores("waitForTransaction", res)
    /\ UNCHANGED <<chainId, isInitialized, afterDeploying, ini,
                   deletes, initClear>>

\* create() resumed after `await this.afterDeploying(...)`, which may have thrown.
CreateReturns ==
    /\ pc = "afterDeploying"
    /\ pc' = "idle"
    /\ cr' = NoCreate
    /\ last' = Step("create", "afterDeploying", cr.address, "ok", "returned", "", {})
    /\ UNCHANGED <<drained, chainId, kv, account, isDeploying, isInitialized, 
                   afterDeploying, ini, deletes, initClear>>

----------------------------------------------------------------------------
Next ==
    \/ SetAfterDeployingCallback
    \/ \E address \in Addr : Select(address)
    \/ \E address \in Addr : Get(address)
    \/ \E address \in Addr : DeleteCall(address)
    \/ \E t \in deletes, emptied \in BOOLEAN : DeleteResume(t, emptied)
    \/ ClearCall
    \/ ClearResume
    \/ InitClearResume
    \/ \E keepNonDeployed \in BOOLEAN : InitCall(keepNonDeployed)
    \/ \E ok \in BOOLEAN : InitChainId(ok)
    \/ InitResume
    \/ \E address \in Addr : CreateCall(address)
    \/ \E res \in {"ok", "none", "throws"} : PrefundStep(res)
    \/ CreatePrefunded
    \/ \E ok \in BOOLEAN : CreateNonce(ok)
    \/ \E ok \in BOOLEAN, transaction_hash \in TxHash : CreateDeployed(ok, transaction_hash)
    \/ CreateChecked
    \/ \E res \in {"receipt", "none", "throws"} : CreateWaited(res)
    \/ CreateReturns

Spec == Init /\ [][Next]_vars

----------------------------------------------------------------------------
\* Claims

DeployInvoked == pc \in {"deployAccount", "isBurnerDeployed", "waitForTransaction",
                         "afterDeploying"}

\* C1: within a create(), deployAccount is invoked only once the prefundAccount
\* call for the same address has settled, and no step of prefundAccount (its
\* getNonce, execute, waitForTransaction) runs after deployAccount was invoked.
C1_PrefundBeforeDeploy ==
    /\ DeployInvoked => cr.prefund \in {"resolved", "rejected"}
    /\ "deployAccount" \in last.calls =>
          /\ pc = "deployAccount"
          /\ last.arg = cr.address
          /\ cr.prefund \in {"resolved", "rejected"}
    /\ last.op = "prefundAccount" => pc = "prefundAccount" /\ last.arg = cr.address

C1_Witness == pc = "deployAccount" /\ cr.prefund = "resolved"

\* A step of create() resumed with the deploy transaction confirmed.
StoreStep(step) ==
    /\ step.op = "create"
    /\ \/ step.at = "isBurnerDeployed" /\ step.res = "true"
       \/ step.at = "waitForTransaction" /\ step.res = "receipt"

C3_CreatePostcondition ==
    [][last'.op = "create" /\ last'.out = "returned" =>
          LET storage == StorageAt(kv', chainId') IN
          /\ Has(storage, cr.address)
          /\ \A i \in 1..Len(storage) :
                IF storage[i].address = cr.address
                THEN /\ storage[i].active
                     /\ storage[i].deployTx = cr.deployTx
                     /\ storage[i].masterAccount = MasterAddress
                ELSE ~storage[i].active
          /\ account' = cr.address]_vars

\* The burners the claim expects init(keepNonDeployed) to leave.
WithReceipt(storage, keepNonDeployed) ==
    SelectSeq(storage, LAMBDA e : keepNonDeployed \/ e.deployTx = "0xaccepted")

\* C4: when init(keepNonDeployed) returns, the storage holds the burners stored
\* before the call, less (when keepNonDeployed is false) those whose deploy
\* transaction has no receipt.
C4_InitPostcondition ==
    [][last'.op = "init" /\ last'.out = "returned" =>
          StorageAt(kv', chainId') = WithReceipt(StorageAt(kv, chainId), ini.keepNonDeployed)]_vars

\* C5: create() called while isInitialized is false throws "BurnerManager is not
\* initialized" and does nothing else: no SDK call, no updateIsDeploying (so no
\* callback), isDeploying false, storage and account unchanged.
C5_CreateUninitialized ==
    [][last'.op = "create" /\ last'.at = "call" /\ ~isInitialized =>
          /\ last'.out = "threw"
          /\ last'.err = "BurnerManager is not initialized"
          /\ last'.calls = {}
          /\ ~isDeploying /\ ~isDeploying'
          /\ pc' = "idle"
          /\ kv' = kv /\ account' = account /\ cr' = cr]_vars

C5_Witness ==
    /\ last.op = "create" /\ last.err = "BurnerManager is not initialized"
    /\ kv[ChainName].burners # <<>>

\* C6: isInitialized starts false, becomes true only in a step that returns from
\* init(), never becomes false again, and init() called while it is true throws
\* "BurnerManager is already initialized" leaving chainId, storage and account.
C6_InitializedOnce ==
    /\ isInitialized = FALSE
    /\ [][/\ isInitialized => isInitialized'
          /\ ~isInitialized /\ isInitialized' => last'.op = "init" /\ last'.out = "returned"
          /\ last'.op = "init" /\ last'.at = "call" /\ isInitialized =>
                /\ last'.out = "threw"
                /\ last'.err = "BurnerManager is already initialized"
                /\ chainId' = chainId /\ kv' = kv /\ account' = account
                /\ pc' = "idle"]_vars

C6_Witness ==
    /\ isInitialized
    /\ last.op = "init" /\ last.err = "BurnerManager is already initialized"
    /\ getBurnerStorage # <<>>

\* C7: select, get and delete called with an address that has no entry in the
\* storage throw "burner not found", leave storage and account unchanged, and
\* delete then issues no emptyAccount call.
C7_BurnerNotFound ==
    [][/\ last'.op \in {"select", "get", "delete"}
       /\ last'.at = "call"
       /\ ~Has(getBurnerStorage, last'.arg)
       => /\ last'.out = "threw"
          /\ last'.err = "burner not found"
          /\ last'.calls = {}
          /\ deletes' = deletes
          /\ kv' = kv /\ account' = account]_vars

C7_Witness ==
    /\ last.op = "delete" /\ last.err = "burner not found"
    /\ getBurnerStorage # <<>>
    /\ account # NoAccount

\* C8: after clear() returns, the storage key is removed, list() is empty,
\* getActiveAccount() is null and the account is null.
C8_ClearPostcondition ==
    last.op = "clear" /\ last.out = "returned" =>
        /\ ~kv[chainId].has
        /\ list = <<>>
        /\ getActiveAccount = NoAccount
        /\ account = NoAccount

C11_PrefundRequired ==
    [][last'.op = "create" =>
          /\ "deployAccount" \in last'.calls => cr.prefund = "resolved"
          /\ StoreStep(last') => cr.prefund = "resolved"]_vars

\* C12: an entry leaves the storage through delete() or clear() (the clear()
\* started by init() included) only if the emptyAccount call for its address
\* succeeded.
C12_RemovedOnlyDrained ==
    [][last'.op \in {"delete", "clear"} =>
          \A address \in Addr :
             Has(getBurnerStorage, address) /\ ~Has(StorageAt(kv', chainId'), address)
                => address \in drained']_vars

====
